---- MODULE Spec2Model ----
(***************************************************************************)
(* A model of the KubeStellar Slack bot (src/app.py): the config adapter,  *)
(* the maintainer formatter, the message composers, the slash-command      *)
(* dispatcher and the events handler.                                      *)
(*                                                                         *)
(* Representation.                                                         *)
(*  - A Python string is a sequence of chunks (a chunk is a TLA+ string    *)
(*    standing for one or more characters); concatenation and f-string     *)
(*    interpolation are \o.  The chunk alphabet is prefix-free, so two     *)
(*    chunk sequences are equal exactly when the Python strings are.       *)
(*  - A Python dict is a record whose DOMAIN is the set of keys present;   *)
(*    the ordered mapping config["projects"] is a sequence of              *)
(*    [key, data] entries with distinct keys (insertion order).            *)
(*  - A call that may raise returns [exc |-> "none", value |-> v] or       *)
(*    [exc |-> <exception class>].                                         *)
(*  - The config source (maintainers.json) is in one of three states:      *)
(*    missing, malformed (not JSON), or present with a JSON object whose   *)
(*    optional keys "projects" and "organization" hold mappings.           *)
(***************************************************************************)
EXTENDS FiniteSets, Integers, Sequences, TLC

VARIABLES
    source,        \* state of maintainers.json
    pc,            \* position of the slash-command handler in flight
    req,           \* the request being handled / handled last
    project_info,  \* handle_slash_commands local: result of get_project_info
    resp,          \* the HTTP response of the request handled last
    sent,          \* chat_postMessage calls made so far (channels, in order)
    joins,         \* team_join events received so far
    reads,         \* reads of the source made while handling req
    composer,      \* the composer that ran while handling req
    read1,         \* the source as get_project_info read it, while the handler is in flight
    delivery       \* what chat_postMessage did while handling req ("none": not called)

vars == <<source, pc, req, project_info, resp, sent, joins, reads, composer, read1, delivery>>

----------------------------------------------------------------------------
(* Bounds *)
MaxPad == 1          \* whitespace characters around a command
MaxSent == 2         \* welcome DMs sent in one behaviour
MaxProjects == 2     \* entries of config["projects"] given to the composers

----------------------------------------------------------------------------
(* Python values *)
None == <<"None">>                       \* the value None (not a chunk of any string)
EmptyMap == [k \in {} |-> <<>>]          \* {}
Get(d, k, dflt) == IF k \in DOMAIN d THEN d[k] ELSE dflt     \* dict.get(k, dflt)
Truthy(v) == v # None /\ v # <<>>        \* truth value of None or a string

Ok(v) == [exc |-> "none", value |-> v]
Raise(e) == [exc |-> e]

S(c) == <<c>>                            \* a one-chunk string

\* str.strip(): drop leading and trailing whitespace characters
IsSpace(c) == c \in {" ", "\t"}

RECURSIVE LStrip(_)
LStrip(s) == IF s # <<>> /\ IsSpace(Head(s)) THEN LStrip(Tail(s)) ELSE s

RECURSIVE RStrip(_)
RStrip(s) == IF s # <<>> /\ IsSpace(s[Len(s)]) THEN RStrip(SubSeq(s, 1, Len(s) - 1)) ELSE s

Strip(s) == RStrip(LStrip(s))

\* str.startswith
StartsWith(s, c) == s # <<>> /\ Head(s) = c

\* sep.join(list)
RECURSIVE Join(_, _)
Join(sep, list) ==
    IF list = <<>> THEN <<>>
    ELSE IF Len(list) = 1 THEN list[1]
    ELSE list[1] \o sep \o Join(sep, Tail(list))

----------------------------------------------------------------------------
(* The config source and the values it can hold *)
ProjectData ==
    { EmptyMap,
      [maintainers |-> << S("alice") >>],
      [project_name |-> S("KubeFlex"), description |-> S("Flexible clusters"),
       docs_url |-> S("https://docs.example/kubeflex"),
       github_url |-> S("https://github.com/kubestellar/kubeflex"),
       maintainers |-> << <<"@", "bob">>, S("carol") >>] }

ConfigKeys == { S("default"), S("kubeflex") }

Entry(k, d) == [key |-> k, data |-> d]

RECURSIVE ProjectsUpTo(_)
ProjectsUpTo(n) ==
    IF n = 0 THEN { <<>> }
    ELSE LET shorter == ProjectsUpTo(n - 1)
         IN shorter \cup
            { Append(p, Entry(k, d)) :
                p \in { q \in shorter : Len(q) = n - 1 },
                k \in ConfigKeys, d \in ProjectData }

DistinctKeys(p) == \A i, j \in 1..Len(p) : p[i].key = p[j].key => i = j

\* every ordered mapping over the keys
ProjectMappings == { p \in ProjectsUpTo(Cardinality(ConfigKeys)) : DistinctKeys(p) }

OrgInfo ==
    [name |-> S("Acme"), website |-> S("https://acme.example"),
     docs |-> S("https://docs.acme.example"), github |-> S("https://github.com/acme")]

Documents ==
    { [projects |-> p] : p \in ProjectMappings }
    \cup { [projects |-> p, organization |-> OrgInfo] : p \in { q \in ProjectMappings : Len(q) <= 1 } }
    \cup { EmptyMap, [organization |-> OrgInfo], [organization |-> EmptyMap] }

Sources ==
    { [kind |-> "missing"], [kind |-> "malformed"] }
    \cup { [kind |-> "present", doc |-> d] : d \in Documents }

\* the configs the composers are run on: more keys (one with an underscore),
\* an empty maintainer list, up to MaxProjects entries
ComposerKeys == { S("default"), S("kubeflex"), S("ui"), <<"my", "_", "proj">> }

ComposerData ==
    { EmptyMap,
      [maintainers |-> <<>>],
      [maintainers |-> << S("alice") >>],
      [project_name |-> S("KubeFlex"), maintainers |-> << <<"@", "bob">>, S("carol") >>] }

RECURSIVE MappingsUpTo(_)
MappingsUpTo(n) ==
    IF n = 0 THEN { <<>> }
    ELSE LET shorter == MappingsUpTo(n - 1)
         IN shorter \cup
            { Append(p, Entry(k, d)) :
                p \in { q \in shorter : Len(q) = n - 1 },
                k \in ComposerKeys, d \in ComposerData }

ComposerMappings == { p \in MappingsUpTo(MaxProjects) : DistinctKeys(p) }

ComposerSources ==
    { [kind |-> "missing"], [kind |-> "malformed"] }
    \cup { [kind |-> "present", doc |-> [projects |-> p]] : p \in ComposerMappings }
    \cup { [kind |-> "present", doc |-> [projects |-> p, organization |-> OrgInfo]] :
             p \in ComposerMappings }

\* dict access on the ordered projects mapping
HasKey(projects, k) == \E i \in 1..Len(projects) : projects[i].key = k
Lookup(projects, k) == projects[CHOOSE i \in 1..Len(projects) : projects[i].key = k].data
MapGet(projects, k, dflt) == IF HasKey(projects, k) THEN Lookup(projects, k) ELSE dflt

----------------------------------------------------------------------------
(* Config store adapter *)

\* open("maintainers.json") followed by json.load
ReadSource(src) ==
    CASE src.kind = "missing" -> Raise("FileNotFoundError")
      [] src.kind = "malformed" -> Raise("JSONDecodeError")
      [] OTHER -> Ok(src.doc)

DefaultConfig ==
    [projects |-> << Entry(S("default"),
        [docs_url |-> S("https://docs.kubestellar.io/"),
         github_url |-> S("https://github.com/kubestellar/kubestellar"),
         maintainers |-> << S("Andy Anderson") >>]) >>]

\* a config kept from a first load made while the source was missing
load_maintainers_config_cached(src) == Ok(DefaultConfig)

load_maintainers_config_uncaught(src) ==
    LET r == ReadSource(src)
    IN IF r.exc = "none" THEN r
       ELSE IF r.exc = "FileNotFoundError" THEN Ok(DefaultConfig)
       ELSE r

load_maintainers_config(src) ==
    LET r == ReadSource(src)
    IN IF r.exc = "none" THEN r
       ELSE IF r.exc = "FileNotFoundError" THEN Ok(DefaultConfig)
       ELSE IF r.exc = "JSONDecodeError" THEN Ok([projects |-> <<>>])
       ELSE r

\* the lookup of get_project_info on a loaded config
ProjectOf_nofallback(config, project_key) ==
    MapGet(Get(config, "projects", <<>>), project_key, EmptyMap)

ProjectOf(config, project_key) ==
    MapGet(Get(config, "projects", <<>>), project_key,
           MapGet(Get(config, "projects", <<>>), S("default"), EmptyMap))

get_project_info(src, project_key) ==
    LET c == load_maintainers_config(src)
    IN IF c.exc = "none" THEN Ok(ProjectOf(c.value, project_key)) ELSE c

----------------------------------------------------------------------------
(* Maintainer formatter *)
Tagged_always(list) == [i \in 1..Len(list) |-> S("@") \o list[i]]

RECURSIVE Tagged(_)
Tagged(list) ==
    IF list = <<>> THEN <<>>
    ELSE << (IF StartsWith(Head(list), "@") THEN Head(list) ELSE S("@") \o Head(list)) >>
         \o Tagged(Tail(list))

format_maintainers(maintainers_list) ==
    IF maintainers_list = <<>>
    THEN S("No maintainers assigned")
    ELSE Join(S(", "), Tagged(maintainers_list))

----------------------------------------------------------------------------
(* Name resolution inside the module: the names an expression of           *)
(* create_project_blocks can refer to.                                     *)
ModuleGlobals ==
    { "json", "os", "Flask", "request", "jsonify", "WebClient", "SlackApiError",
      "logging", "datetime", "logger", "app", "slack_client",
      "load_maintainers_config", "get_project_info", "format_maintainers",
      "create_project_blocks", "create_help_blocks", "create_meeting_blocks",
      "create_internship_blocks", "handle_slash_commands", "handle_events",
      "send_welcome_dm", "verify_slack_request", "health_check", "root" }

Builtins == { "open", "all", "int", "str", "exit", "Exception", "FileNotFoundError" }

ProjectBlocksLocals ==
    { "username", "project_info", "command_type", "project_name", "docs_url",
      "github_url", "description", "maintainers", "config", "org_info", "org_name" }

\* every name of an f-string bound: the lookup cannot raise
NameLookup_bound(name, locals) == Ok(S(name))

NameLookup(name, locals) ==
    IF name \in locals \cup ModuleGlobals \cup Builtins THEN Ok(S(name)) ELSE Raise("NameError")

----------------------------------------------------------------------------
(* Message composers.  A block is a record with its type and the parts of  *)
(* it that are computed; static text is kept by its opening words.         *)
Header(t) == [type |-> "header", text |-> t]
Section(t) == [type |-> "section", text |-> t]
Fields(fs) == [type |-> "section", fields |-> fs]
Divider == [type |-> "divider"]
Actions(urls) == [type |-> "actions", urls |-> urls]
Context(t) == [type |-> "context", text |-> t]

\* the block list of create_project_blocks, given the value formatted into
\* the "Getting Help" text
ProjectBlocks(username, info, org_info, tag) ==
    LET project_name == Get(info, "project_name", S("KubeStellar"))
        docs_url == Get(info, "docs_url", S("https://docs.kubestellar.io"))
        github_url == Get(info, "github_url", S("https://github.com/kubestellar/kubestellar"))
        description == Get(info, "description", S("A flexible solution for multi-cluster configuration management"))
        org_name == Get(org_info, "name", S("KubeStellar"))
        website == Get(org_info, "website", S("https://kubestellar.io"))
    IN << Header(S("Welcome to ") \o org_name \o S("!")),
          Section(S("Hi <@") \o username \o S(">! I'm the KubeStellar bot")),
          Divider,
          Section(S("*") \o project_name \o S("*\n_") \o description \o S("_")),
          Section(S("*Essential Resources*")),
          Fields(<< S("*Documentation*\n<") \o docs_url \o S("|View Docs>"),
                    S("*GitHub Repository*\n<") \o github_url \o S("|View Code>") >>),
          Section(S("*Main Website*\n<") \o website \o S("|Visit KubeStellar.io>")),
          Divider,
          Section(S("*Getting Help* ... Tag: ") \o tag \o S("|Andy>")),
          Section(S("*Quick Start Commands*")),
          Fields(<< S("'/help'"), S("'/contribute'"), S("'/kubeflex'"), S("'/ui'"),
                    S("'/know-about-internship'") >>),
          Actions(<< docs_url, github_url, website >>),
          Context(S("*Happy Coding!*")) >>

\* create_project_blocks: formats the maintainers, loads the organization
\* info, then builds the block list; the f-string of the "Getting Help"
\* block evaluates the name https
create_project_blocks(src, username, info, command_type) ==
    LET maintainers == format_maintainers(Get(info, "maintainers", << S("Andy") >>))
        c == load_maintainers_config(src)
    IN IF c.exc # "none" THEN c
       ELSE LET org_info == Get(c.value, "organization", EmptyMap)
                https == NameLookup("https", ProjectBlocksLocals)
            IN IF https.exc # "none" THEN https
               ELSE Ok(ProjectBlocks(username, info, org_info, https.value))

\* project_key.replace("_", " ").title(): a chunk of a key is a lower-case
\* word or a separator, so title() capitalises every word chunk
Replace(s, old, new) == [i \in 1..Len(s) |-> IF s[i] = old THEN new ELSE s[i]]

Capitalized ==
    [default |-> "Default", kubeflex |-> "Kubeflex", kubestellar |-> "Kubestellar",
     ui |-> "Ui", a2a |-> "A2A", my |-> "My", proj |-> "Proj"]

Title(s) == [i \in 1..Len(s) |-> IF s[i] \in DOMAIN Capitalized THEN Capitalized[s[i]] ELSE s[i]]

TitleOf(project_key) == Title(Replace(project_key, "_", " "))

MaintainerLine(entry) ==
    LET maintainers == format_maintainers(Get(entry.data, "maintainers", <<>>))
        project_name == Get(entry.data, "project_name", TitleOf(entry.key))
    IN Section(S("*") \o project_name \o <<":", "*", " ">> \o maintainers)

QuickLinks(org_info) ==
    << Get(org_info, "website", S("https://kubestellar.io")),
       Get(org_info, "docs", S("https://docs.kubestellar.io")),
       Get(org_info, "github", S("https://github.com/kubestellar")) >>

RECURSIVE HelpLines_reversed(_)
HelpLines_reversed(projects) ==
    IF projects = <<>> THEN <<>>
    ELSE HelpLines_reversed(Tail(projects)) \o << MaintainerLine(Head(projects)) >>

RECURSIVE HelpLines(_)
HelpLines(projects) ==
    IF projects = <<>> THEN <<>>
    ELSE << MaintainerLine(Head(projects)) >> \o HelpLines(Tail(projects))

\* the blocks create_help_blocks builds from the config it loaded
HelpBlocks(config, user_id) ==
    LET projects == Get(config, "projects", <<>>)
        org_info == Get(config, "organization", EmptyMap)
    IN << Header(S("KubeStellar Bot")),
          Section(S("Your guide to contributing")),
          Divider,
          Section(S("*Project Commands*")),
          Fields(<< S("'/contribute' or '/kubeStellar'"), S("'/kubeflex'"),
                    S("'/ui'"), S("'/a2a'") >>),
          Section(S("*Utility Commands*")),
          Fields(<< S("'/know-about-internship'"), S("'/help'") >>),
          Divider,
          Section(S("*Project Maintainers & Contacts*")) >>
       \o HelpLines(projects)
       \o << Divider,
             Section(S("*Quick Links*")),
             Actions(QuickLinks(org_info)
                     \o << Get(org_info, "github", S("http://kubestellar.io/join_us")) >>),
             Context(S("*Pro Tip:*")),
             Context(S("*Welcome to the KubeStellar community!*")) >>

create_help_blocks(src, user_id) ==
    LET c == load_maintainers_config(src)
    IN IF c.exc # "none" THEN c ELSE Ok(HelpBlocks(c.value, user_id))

MeetingInfo == Section(S("*Community Meeting Info*"))

\* the logistics block placed after the loop instead of inside it
MeetingLines_once(projects) ==
    IF projects = <<>> THEN <<>>
    ELSE [i \in 1..Len(projects) |-> MaintainerLine(projects[i])] \o << MeetingInfo, Divider >>

RECURSIVE MeetingLines(_)
MeetingLines(projects) ==
    IF projects = <<>> THEN <<>>
    ELSE << MaintainerLine(Head(projects)), MeetingInfo, Divider >>
         \o MeetingLines(Tail(projects))

\* the blocks create_meeting_blocks builds from the config it loaded
MeetingBlocks(config, user_id) ==
    LET projects == Get(config, "projects", <<>>)
        org_info == Get(config, "organization", EmptyMap)
    IN << Header(S("Interested in Joining KubeStellar Community Meeting?")),
          Section(S("Hi <@") \o user_id \o S(">! *Welcome to our open source community!*")),
          Divider >>
       \o MeetingLines(projects)
       \o << Section(S("*Quick Links*")),
             Actions(QuickLinks(org_info)),
             Context(S("*Pro Tip:*")),
             Context(S("*Welcome to the KubeStellar community!*")) >>

create_meeting_blocks(src, user_id) ==
    LET c == load_maintainers_config(src)
    IN IF c.exc # "none" THEN c ELSE Ok(MeetingBlocks(c.value, user_id))

\* the blocks create_internship_blocks builds; need_help is the text of its
\* "Need Help?" section
InternshipBlocks(config, user_id, need_help) ==
    LET org_info == Get(config, "organization", EmptyMap)
    IN << Header(S("Interested in Contributing to KubeStellar?")),
          Section(S("Hi <@") \o user_id \o S(">! *Welcome to our open source community!*")),
          Divider,
          Section(S("*Getting Started with Open Source Contributions*")),
          Section(S("*Available Projects*")),
          Fields(<< S("*KubeStellar Core*"), S("*KubeFlex*"),
                    S("*KubeStellar UI*"), S("*App-to-App (A2A)*") >>),
          Section(S("*Essential Resources*")),
          Actions(<< Get(org_info, "docs", S("https://docs.kubestellar.io")),
                     Get(org_info, "github", S("https://github.com/kubestellar")),
                     Get(org_info, "website", S("https://kubestellar.io")) >>),
          Section(need_help),
          Section(S("*Next Steps*")),
          Context(S("*Let's build something amazing together!*")) >>

\* the variant left in a comment at src/app.py:617: the tag is the formatted
\* maintainers of the default project
create_internship_blocks_tagging(src, info, user_id) ==
    LET c == load_maintainers_config(src)
    IN IF c.exc # "none" THEN c
       ELSE Ok(InternshipBlocks(c.value, user_id,
                   S("*Need Help?* ... Tag: ")
                   \o format_maintainers(Get(info, "maintainers", << S("Andy") >>))))

\* create_internship_blocks after its get_project_info("default") call, whose
\* result is info
create_internship_blocks(src, info, user_id) ==
    LET c == load_maintainers_config(src)
    IN IF c.exc # "none" THEN c
       ELSE Ok(InternshipBlocks(c.value, user_id, S("*Need Help?* ... Tag: Andy Anderson")))

\* the else branch of the dispatcher
UnknownCommandBlocks(command) ==
    << Section(S("Unknown command: '") \o command \o S("'\n\nType '/help' to see available commands.")) >>

----------------------------------------------------------------------------
(* HTTP *)
Response(status, body) == [status |-> status, body |-> body]
jsonify(body) == Response(200, body)

NoRequest == [kind |-> "none", form |-> EmptyMap]
NoResponse == Response(0, EmptyMap)
NoRead == [kind |-> "none"]

Restrict(f, D) == [k \in D |-> f[k]]

\* inbound slash-command forms
Pad(n) == [i \in 1..n |-> " "]

RecognisedCommands ==
    { S("/contribute"), S("/kubestellar"), S("/kubeflex"), S("/ui"), S("/a2a"),
      S("/know-about-internship"), S("/help"), S("/meeting") }

CommandBodies ==
    RecognisedCommands \cup { <<>>, S("/Help"), S("bogus"), <<"/help", " ", "me">> }

Paddings == { lt \in (0..MaxPad) \X (0..MaxPad) : lt[1] + lt[2] <= MaxPad }

Commands == { Pad(lt[1]) \o b \o Pad(lt[2]) : lt \in Paddings, b \in CommandBodies }

FormFields == { "command", "user_id", "user_name", "channel_id" }

FullForm(c) == [command |-> c, user_id |-> S("U1"), user_name |-> S("ann"), channel_id |-> S("C1")]

Forms ==
    { FullForm(c) : c \in Commands }
    \cup { Restrict(FullForm(c), D) : c \in { S("/help"), S("/kubeflex") }, D \in SUBSET FormFields }

\* verify_slack_request: presence of the required fields, nothing else
required_fields == { "command", "user_id", "user_name" }

verify_slack_request_any(form) == \E field \in required_fields : field \in DOMAIN form

verify_slack_request(form) == \A field \in required_fields : field \in DOMAIN form

----------------------------------------------------------------------------
(* Slash-command dispatcher *)

\* command = request.form.get("command", "").strip()
CommandOf_raw(form) == Get(form, "command", <<>>)

CommandOf(form) == Strip(Get(form, "command", <<>>))

\* the first `if` of the dispatcher
FirstIf(command) == command = S("/contribute")

\* the branch the if/elif/else chain that follows takes
ChainBranch(command) ==
    CASE command = S("/kubestellar") -> "kubestellar"
      [] command = S("/kubeflex") -> "kubeflex"
      [] command = S("/ui") -> "ui"
      [] command = S("/a2a") -> "a2a"
      [] command = S("/know-about-internship") -> "internship"
      [] command = S("/help") -> "help"
      [] command = S("/meeting") -> "meeting"
      [] OTHER -> "else"

ProjectBranches == { "kubestellar", "kubeflex", "ui", "a2a" }

\* the except clause of handle_slash_commands
SlashError == Response(500, [response_type |-> "ephemeral",
                             text |-> S("Sorry, something went wrong. Please try again later.")])

SlashOk(blocks) == jsonify([response_type |-> "in_channel", blocks |-> blocks])

\* the handler returns: its locals are gone
Completes(response) ==
    /\ resp' = response
    /\ pc' = "idle"
    /\ project_info' = EmptyMap
    /\ read1' = NoRead

\* the handler stops at a call of create_project_blocks / create_internship_blocks,
\* having made the get_project_info(key) call before it
CallsGetProjectInfo(key, at) ==
    LET r == get_project_info(source, key)
    IN /\ reads' = 1
       /\ IF r.exc # "none"
          THEN /\ Completes(SlashError)
               /\ composer' = "none"
          ELSE /\ project_info' = r.value
               /\ read1' = source
               /\ pc' = at
               /\ composer' = "none"
               /\ resp' = NoResponse

\* a composer that loads the config once and returns the blocks
RunsComposer(name, r) ==
    /\ composer' = name
    /\ reads' = reads + 1
    /\ Completes(IF r.exc # "none" THEN SlashError ELSE SlashOk(r.value))

\* handle_slash_commands from its entry to its first call of a two-load
\* composer, or to its return
SlashReceive(form) ==
    /\ pc = "idle"
    /\ req' = [kind |-> "slash", form |-> form]
    /\ UNCHANGED <<source, sent, joins, delivery>>
    /\ IF ~verify_slack_request(form)
       THEN /\ Completes(Response(403, [error |-> S("Invalid request")]))
            /\ reads' = 0
            /\ composer' = "none"
       ELSE LET command == CommandOf(form)
                user_id == Get(form, "user_id", None)
                branch == ChainBranch(command)
            IN IF FirstIf(command) THEN CallsGetProjectInfo(S("default"), "first_if")
               ELSE IF branch \in ProjectBranches THEN CallsGetProjectInfo(S(branch), "chain")
               ELSE IF branch = "internship" THEN CallsGetProjectInfo(S("default"), "internship")
               ELSE IF branch = "help"
                    THEN /\ composer' = "help"
                         /\ reads' = 1
                         /\ LET r == create_help_blocks(source, user_id)
                            IN Completes(IF r.exc # "none" THEN SlashError ELSE SlashOk(r.value))
               ELSE IF branch = "meeting"
                    THEN /\ composer' = "meeting"
                         /\ reads' = 1
                         /\ LET r == create_meeting_blocks(source, user_id)
                            IN Completes(IF r.exc # "none" THEN SlashError ELSE SlashOk(r.value))
               ELSE /\ composer' = "unknown"
                    /\ reads' = 0
                    /\ Completes(SlashOk(UnknownCommandBlocks(command)))

\* handle_slash_commands from the call of the composer to its return
SlashCompose ==
    /\ pc \in { "first_if", "chain", "internship" }
    /\ UNCHANGED <<source, req, sent, joins, delivery>>
    /\ LET command == CommandOf(req.form)
           user_id == Get(req.form, "user_id", None)
       IN CASE pc = "first_if" ->
                 \* blocks of the first if, then the chain, whose else branch
                 \* assigns blocks again
                 LET r == create_project_blocks(source, user_id, project_info, "contribute")
                 IN RunsComposer("project",
                        IF r.exc # "none" THEN r
                        ELSE IF ChainBranch(command) = "else"
                             THEN Ok(UnknownCommandBlocks(command))
                             ELSE r)
            [] pc = "chain" ->
                 RunsComposer("project",
                     create_project_blocks(source, user_id, project_info, ChainBranch(command)))
            [] pc = "internship" ->
                 RunsComposer("internship", create_internship_blocks(source, project_info, user_id))

\* an edit of maintainers.json from outside the program
EditSource(s) ==
    /\ s # source
    /\ source' = s
    /\ UNCHANGED <<pc, req, project_info, resp, sent, joins, reads, composer, read1, delivery>>

----------------------------------------------------------------------------
(* Events handler *)
EventUsers == { S("U1"), S("U2") }

EventPayloads ==
    { [type |-> S("team_join"), user |-> [id |-> u]] : u \in EventUsers }
    \cup { [type |-> S("team_join"), user |-> [id |-> <<>>]],
           [type |-> S("team_join"), user |-> EmptyMap],
           [type |-> S("team_join")],
           [type |-> S("member_joined_channel"), channel |-> S("C1")],
           [type |-> S("app_mention")],
           EmptyMap }

EventBodies ==
    { Restrict([type |-> t, challenge |-> c, event |-> e], D) :
        t \in { S("url_verification"), S("event_callback") },
        c \in { S("abc123") },
        e \in EventPayloads,
        D \in SUBSET { "type", "challenge", "event" } }

\* what slack_client.chat_postMessage does once called
SendOutcomes == { "ok", "SlackApiError", "Exception" }

WelcomeBlocks(user_id, org_info) ==
    << Header(S("Hey there, welcome to KubeStellar!")),
       Section(S("Hi <@") \o user_id \o S(">! *Welcome to our open source community!*")),
       Divider,
       Section(S("*Getting Started Guide*")),
       Fields(<< S("'/contribute'"), S("'/kubeflex'"), S("'/ui'"), S("'/a2a'") >>),
       Actions(<< Get(org_info, "docs", S("https://docs.kubestellar.io")),
                  Get(org_info, "github", S("https://github.com/kubestellar")),
                  Get(org_info, "website", S("https://kubestellar.io")) >>),
       Section(S("*Need Help?*")),
       Section(S("*Pro Tips for New Contributors*")),
       Context(S("*Ready to make an impact?*")) >>

\* the result of send_welcome_dm: the exception it lets out (if any) and the
\* chat_postMessage calls it made
Sends(exc, calls) == [exc |-> exc, calls |-> calls]

send_welcome_dm_unguarded(src, user_id, outcome) ==
    LET c == load_maintainers_config(src)
    IN IF c.exc # "none" THEN Sends("none", <<>>)
       ELSE LET org_info == Get(c.value, "organization", EmptyMap)
                call == [channel |-> S("@") \o user_id,
                         blocks |-> WelcomeBlocks(user_id, org_info),
                         username |-> S("KubeStellar Bot"),
                         icon_emoji |-> S(":rocket:")]
            IN IF outcome = "SlackApiError" THEN Sends("SlackApiError", << call >>)
               ELSE Sends("none", << call >>)

send_welcome_dm(src, user_id, outcome) ==
    LET c == load_maintainers_config(src)
    IN IF c.exc # "none" THEN Sends("none", <<>>)      \* except Exception
       ELSE LET org_info == Get(c.value, "organization", EmptyMap)
                call == [channel |-> S("@") \o user_id,
                         blocks |-> WelcomeBlocks(user_id, org_info),
                         username |-> S("KubeStellar Bot"),
                         icon_emoji |-> S(":rocket:")]
            IN \* both except clauses log and return
               Sends("none", << call >>)

EventOf(data) == Get(data, "event", EmptyMap)
EventType(data) == Get(EventOf(data), "type", None)
IsVerification(data) == Get(data, "type", None) = S("url_verification")
JoiningUser(data) == Get(Get(EventOf(data), "user", EmptyMap), "id", None)

\* the team_join branch is entered
EntersTeamJoin(data) == ~IsVerification(data) /\ EventType(data) = S("team_join")

handle_events_no_id_check(data, src, outcome) ==
    IF IsVerification(data)
    THEN [response |-> jsonify([challenge |-> Get(data, "challenge", None)]),
          calls |-> <<>>, reads |-> 0, composer |-> "none"]
    ELSE IF EventType(data) = S("team_join")
    THEN LET r == send_welcome_dm(src, JoiningUser(data), outcome)
         IN [response |-> IF r.exc # "none"
                          THEN Response(500, [status |-> S("error")])
                          ELSE jsonify([status |-> S("ok")]),
             calls |-> r.calls, reads |-> 1, composer |-> "welcome"]
    ELSE [response |-> jsonify([status |-> S("ok")]),
          calls |-> <<>>, reads |-> 0, composer |-> "none"]

handle_events_always_event(data, src, outcome) ==
    IF EventType(data) = S("team_join") /\ Truthy(JoiningUser(data))
    THEN LET r == send_welcome_dm(src, JoiningUser(data), outcome)
         IN [response |-> IF r.exc # "none"
                          THEN Response(500, [status |-> S("error")])
                          ELSE jsonify([status |-> S("ok")]),
             calls |-> r.calls, reads |-> 1, composer |-> "welcome"]
    ELSE [response |-> jsonify([status |-> S("ok")]),
          calls |-> <<>>, reads |-> 0, composer |-> "none"]

\* handle_events: the response, the sends made, the reads of the source made
handle_events(data, src, outcome) ==
    IF IsVerification(data)
    THEN [response |-> jsonify([challenge |-> Get(data, "challenge", None)]),
          calls |-> <<>>, reads |-> 0, composer |-> "none"]
    ELSE IF EventType(data) = S("team_join") /\ Truthy(JoiningUser(data))
    THEN LET r == send_welcome_dm(src, JoiningUser(data), outcome)
         IN [response |-> IF r.exc # "none"
                          THEN Response(500, [status |-> S("error")])
                          ELSE jsonify([status |-> S("ok")]),
             calls |-> r.calls, reads |-> 1, composer |-> "welcome"]
    ELSE [response |-> jsonify([status |-> S("ok")]),
          calls |-> <<>>, reads |-> 0, composer |-> "none"]

\* chat_postMessage has an outcome only where it is called
Calls(data) == ~IsVerification(data) /\ EventType(data) = S("team_join") /\ Truthy(JoiningUser(data))

HandleEvents(data, outcome) ==
    /\ pc = "idle"
    /\ ~Calls(data) => outcome = "ok"
    /\ EntersTeamJoin(data) => joins < MaxSent
    /\ LET h == handle_events(data, source, outcome)
       IN /\ req' = [kind |-> "events", form |-> data]
          /\ resp' = h.response
          /\ sent' = sent \o [i \in 1..Len(h.calls) |-> h.calls[i].channel]
          /\ reads' = h.reads
          /\ composer' = h.composer
          /\ delivery' = IF h.calls = <<>> THEN "none" ELSE outcome
    /\ joins' = IF EntersTeamJoin(data) THEN joins + 1 ELSE joins
    /\ UNCHANGED <<source, pc, project_info, read1>>

----------------------------------------------------------------------------
(* Specifications.  The two endpoints share nothing but the source, which  *)
(* they only read, so each is checked with the edits of the source.        *)
\* no request handled yet
Started ==
    /\ pc = "idle"
    /\ req = NoRequest
    /\ project_info = EmptyMap
    /\ resp = NoResponse
    /\ sent = <<>>
    /\ joins = 0
    /\ reads = 0
    /\ composer = "none"
    /\ read1 = NoRead
    /\ delivery = "none"

Init == source \in Sources /\ Started

\* the composers on their own: a config, then one composer command
InitComposers == source \in ComposerSources /\ Started

ComposerForms ==
    { FullForm(c) : c \in { S("/help"), S("/meeting"), S("/know-about-internship") } }

NextComposers ==
    \/ \E form \in ComposerForms : SlashReceive(form)
    \/ SlashCompose

NextCommands ==
    \/ \E form \in Forms : SlashReceive(form)
    \/ SlashCompose
    \/ \E s \in Sources : EditSource(s)

NextEvents ==
    \/ \E data \in EventBodies, outcome \in SendOutcomes : HandleEvents(data, outcome)
    \/ \E s \in Sources : EditSource(s)

Next ==
    \/ \E form \in Forms : SlashReceive(form)
    \/ SlashCompose
    \/ \E data \in EventBodies, outcome \in SendOutcomes : HandleEvents(data, outcome)
    \/ \E s \in Sources : EditSource(s)

\* the program started without a maintainers.json
InitMissing == Init /\ source = [kind |-> "missing"]

SpecCommands == Init /\ [][NextCommands]_vars
SpecReload == InitMissing /\ [][NextCommands]_vars
SpecComposers == InitComposers /\ [][NextComposers]_vars
SpecEvents == Init /\ [][NextEvents]_vars
Spec == Init /\ [][Next]_vars

----------------------------------------------------------------------------
(* Properties *)

\* a slash-command request that passes field validation has been answered
AnsweredValid ==
    /\ pc = "idle"
    /\ req.kind = "slash"
    /\ { "command", "user_id", "user_name" } \subseteq DOMAIN req.form

\* organization info as a load of the source gives it
OrgOf(src) == Get(load_maintainers_config(src).value, "organization", EmptyMap)

\* the values the "Getting Help" text can carry after "Tag: "
HelpTags == { S("https"), S("<https://github.com/clubanderson") }

ProjectResponses(user_id, info, src) ==
    { SlashOk(ProjectBlocks(user_id, info, OrgOf(src), tag)) : tag \in HelpTags }

\* C1: every slash-command request that passes field validation, whatever
\* its command string and whatever the state of the config source, is
\* answered with a block message and response_type "in_channel"; the 500
\* error path is never taken.
C1_DispatchTotal ==
    AnsweredValid =>
        /\ resp.status = 200
        /\ resp.body.response_type = "in_channel"
        /\ "blocks" \in DOMAIN resp.body

\* C2: /kubestellar, /kubeflex, /ui and /a2a are answered with the project
\* composer's blocks built from get_project_info of the same-named key,
\* with response_type "in_channel".
C2_ProjectCommands ==
    [][ (pc = "chain" /\ pc' = "idle") =>
           /\ ChainBranch(Strip(req.form.command)) \in ProjectBranches
           /\ project_info = get_project_info(read1, S(ChainBranch(Strip(req.form.command)))).value
           /\ resp' \in ProjectResponses(req.form.user_id, project_info, source) ]_vars

\* C3: /contribute is answered with the project composer's blocks for the
\* key "default": the message is the one the /contribute branch assigned,
\* not the unknown-command message and not an error response.
C3_Contribute ==
    [][ (pc = "first_if" /\ pc' = "idle") =>
           /\ Strip(req.form.command) = S("/contribute")
           /\ project_info = get_project_info(read1, S("default")).value
           /\ resp' \in ProjectResponses(req.form.user_id, project_info, source)
           /\ resp' # SlashOk(UnknownCommandBlocks(S("/contribute")))
           /\ resp'.status # 500 ]_vars

\* C4 as claimed: a command string that is not one of the eight recognised
\* commands is answered with the unknown-command message embedding the
\* command field exactly as received, surrounding whitespace included.
C4_EmbedsRawCommand ==
    (AnsweredValid /\ req.form.command \notin RecognisedCommands) =>
        resp = SlashOk(UnknownCommandBlocks(req.form.command))

\* C4 as amended: a command string whose stripped form is not one of the
\* eight recognised commands is answered with the unknown-command message
\* embedding the stripped command.
C4_EmbedsStrippedCommand ==
    (AnsweredValid /\ Strip(req.form.command) \notin RecognisedCommands) =>
        /\ resp = SlashOk(UnknownCommandBlocks(Strip(req.form.command)))
        /\ composer = "unknown"

C4_Witness ==
    /\ AnsweredValid
    /\ req.form.command = <<" ", "bogus">>
    /\ resp.body.blocks = UnknownCommandBlocks(S("bogus"))

\* C5: a slash-command request lacking command, user_id or user_name is
\* answered 403 {error: "Invalid request"} with the source unread, no
\* composer run and nothing sent; a request carrying all three is never
\* answered 403.
C5_Validation ==
    (pc = "idle" /\ req.kind = "slash") =>
        IF { "command", "user_id", "user_name" } \subseteq DOMAIN req.form
        THEN resp.status # 403
        ELSE /\ resp = Response(403, [error |-> S("Invalid request")])
             /\ reads = 0
             /\ composer = "none"
             /\ sent = <<>>

C5_Witness ==
    /\ req.kind = "slash"
    /\ DOMAIN req.form = { "command", "user_id", "channel_id" }
    /\ resp.status = 403

\* C9: for a key absent from the projects mapping get_project_info returns
\* what get_project_info("default") returns on the same source state, and
\* the empty mapping when "default" is absent too.
C9_FallbackToDefault ==
    (pc \in { "chain", "first_if", "internship" }) =>
        LET key == IF pc = "chain" THEN S(ChainBranch(Strip(req.form.command))) ELSE S("default")
            projects == Get(load_maintainers_config(read1).value, "projects", <<>>)
        IN ~HasKey(projects, key) =>
              /\ project_info = get_project_info(read1, S("default")).value
              /\ ~HasKey(projects, S("default")) => project_info = EmptyMap

C9_Witness ==
    /\ pc = "chain"
    /\ Strip(req.form.command) = S("/ui")
    /\ read1.kind = "present"
    /\ HasKey(Get(read1.doc, "projects", <<>>), S("default"))
    /\ project_info = Lookup(read1.doc.projects, S("default"))
    /\ project_info # EmptyMap

\* C10: load_maintainers_config never raises; a missing source gives the
\* built-in default config (projects["default"].maintainers = ["Andy
\* Anderson"]), a malformed one gives {projects: {}} without organization
\* info, and a request handled on such a source is not answered with 500
\* because of it.
C10_LoadAbsorbs ==
    /\ [](LET c == load_maintainers_config(source)
          IN /\ c.exc = "none"
             /\ source.kind = "missing" =>
                   /\ c.value = DefaultConfig
                   /\ Lookup(c.value.projects, S("default")).maintainers = << S("Andy Anderson") >>
             /\ source.kind = "malformed" =>
                   /\ c.value.projects = <<>>
                   /\ DOMAIN c.value = { "projects" })
    /\ [][ (pc = "idle" /\ pc' = "idle" /\ source' = source
            /\ source.kind \in { "missing", "malformed" }
            /\ composer' \in { "help", "meeting" }) =>
              /\ resp'.status = 200
              /\ resp'.body.response_type = "in_channel" ]_vars

C10_Witness ==
    /\ source.kind = "malformed"
    /\ req.kind = "slash"
    /\ composer = "help"
    /\ resp.status = 200
    /\ Len(resp.body.blocks) = 14

\* an events request is handled in this step
EventsStep == source' = source /\ req'.kind = "events"

Welcomed(data) ==
    /\ "event" \in DOMAIN data
    /\ "type" \in DOMAIN data.event
    /\ data.event.type = S("team_join")
    /\ "user" \in DOMAIN data.event
    /\ "id" \in DOMAIN data.event.user
    /\ data.event.user.id # <<>>

HasEventType(data, t) ==
    /\ "event" \in DOMAIN data
    /\ "type" \in DOMAIN data.event
    /\ data.event.type = t

\* the body carries an event whose type is not team_join
OtherEventType(data) ==
    /\ "event" \in DOMAIN data
    /\ "type" \in DOMAIN data.event
    /\ data.event.type # S("team_join")

Challenged(data) == "type" \in DOMAIN data /\ data.type = S("url_verification")

EventsOk == Response(200, [status |-> S("ok")])

\* C6 as claimed: an events request whose event type is team_join carrying
\* user.id causes exactly one send, addressed to that user; a channel join
\* and every other event type cause no send and are acknowledged with
\* {status: "ok"}; there are never more sends than team_join events.
C6_OneSendPerJoin ==
    /\ [][ EventsStep =>
             /\ Welcomed(req'.form) => sent' = Append(sent, S("@") \o req'.form.event.user.id)
             /\ OtherEventType(req'.form) => (sent' = sent /\ resp' = EventsOk) ]_vars
    /\ [](Len(sent) <= joins)

\* C6 as amended: the same, for events requests that are not
\* url_verification challenges (a challenge is answered by the echo and its
\* event is not looked at); a team_join without a user id causes no send.
C6_OneSendPerJoinUnlessChallenge ==
    /\ [][ (EventsStep /\ ~Challenged(req'.form)) =>
             /\ Welcomed(req'.form) => sent' = Append(sent, S("@") \o req'.form.event.user.id)
             /\ ~Welcomed(req'.form) => sent' = sent
             /\ ~HasEventType(req'.form, S("team_join")) => resp' = EventsOk ]_vars
    /\ [](Len(sent) <= joins)

C6_Witness ==
    /\ req.kind = "events"
    /\ ~Challenged(req.form)
    /\ Welcomed(req.form)
    /\ req.form.event.user.id = S("U2")
    /\ sent = << <<"@", "U1">>, <<"@", "U2">> >>
    /\ joins = 2

\* C7: when the send of the welcome DM fails, with a platform API error or
\* any other exception, the events request still returns {status: "ok"}
\* with status 200.
C7_DeliveryFailureAbsorbed ==
    (req.kind = "events" /\ delivery \in { "SlackApiError", "Exception" }) => resp = EventsOk

C7_Witness ==
    /\ req.kind = "events"
    /\ delivery = "SlackApiError"
    /\ sent # <<>>
    /\ resp = EventsOk

\* C8: an events request of type url_verification is answered with exactly
\* {challenge: c}, c being its challenge value; no send is made and the
\* source is not read, whatever else the body contains.
C8_ChallengeEcho ==
    /\ []((req.kind = "events" /\ Challenged(req.form)) =>
            /\ resp = Response(200, [challenge |-> IF "challenge" \in DOMAIN req.form
                                                    THEN req.form.challenge ELSE None])
            /\ reads = 0
            /\ composer = "none"
            /\ delivery = "none")
    /\ [][ (EventsStep /\ Challenged(req'.form)) => (sent' = sent /\ joins' = joins) ]_vars

C8_Witness ==
    /\ req.kind = "events"
    /\ Challenged(req.form)
    /\ Welcomed(req.form)
    /\ resp.body = [challenge |-> S("abc123")]
    /\ sent = <<>>

\* the config a read of the source in state src gives
ConfigIn(src) ==
    CASE src.kind = "missing" -> DefaultConfig
      [] src.kind = "malformed" -> [projects |-> <<>>]
      [] OTHER -> src.doc

\* a step of the slash-command handler
HandlerStep == source' = source /\ req'.kind = "slash"

\* C11: the config is not cached: every load a request makes reads the
\* source as it is at that moment, so a request handled after an edit of
\* the source (creation, deletion and corruption included) is answered from
\* the edited state, without a restart.
C11_NoCaching ==
    [][ HandlerStep =>
          /\ (pc = "idle" /\ pc' = "idle" /\ composer' = "help") =>
                resp' = SlashOk(HelpBlocks(ConfigIn(source), req'.form.user_id))
          /\ (pc = "idle" /\ pc' = "idle" /\ composer' = "meeting") =>
                resp' = SlashOk(MeetingBlocks(ConfigIn(source), req'.form.user_id))
          /\ (pc = "idle" /\ pc' = "chain") =>
                project_info' = ProjectOf(ConfigIn(source), S(ChainBranch(Strip(req'.form.command))))
          /\ (pc = "idle" /\ pc' \in { "first_if", "internship" }) =>
                project_info' = ProjectOf(ConfigIn(source), S("default"))
          /\ (pc = "internship" /\ pc' = "idle") =>
                resp' = SlashOk(InternshipBlocks(ConfigIn(source), req'.form.user_id,
                                                 S("*Need Help?* ... Tag: Andy Anderson"))) ]_vars

\* the program started without the file; the file now holds two projects and
\* /help is answered with their two maintainer lines
C11_Witness ==
    /\ pc = "idle"
    /\ req.kind = "slash"
    /\ composer = "help"
    /\ source.kind = "present"
    /\ "projects" \in DOMAIN source.doc
    /\ Len(source.doc.projects) = 2
    /\ resp = SlashOk(HelpBlocks(source.doc, req.form.user_id))

----------------------------------------------------------------------------
(* The composers (SpecComposers: the source is not edited, so the source   *)
(* of an answered request is the one its composer loaded)                  *)
Answered(name) == pc = "idle" /\ req.kind = "slash" /\ composer = name /\ resp.status = 200

ProjectsIn(src) == Get(ConfigIn(src), "projects", <<>>)

DisplayName(entry) ==
    IF "project_name" \in DOMAIN entry.data THEN entry.data.project_name ELSE TitleOf(entry.key)

MaintainersOf(entry) ==
    IF "maintainers" \in DOMAIN entry.data THEN entry.data.maintainers ELSE <<>>

\* seg is a contiguous part of text
Contains(text, seg) ==
    \E k \in 0..(Len(text) - Len(seg)) : SubSeq(text, k + 1, k + Len(seg)) = seg

\* C12 as claimed: the help message has one maintainer line per entry of
\* config.projects, in insertion order, each containing
\* "{display name}: {formatted maintainers}".
C12_HelpLinePerProject ==
    Answered("help") =>
        LET projects == ProjectsIn(source)
            blocks == resp.body.blocks
        IN /\ Len(blocks) = 14 + Len(projects)
           /\ \A i \in 1..Len(projects) :
                 /\ blocks[9 + i].type = "section"
                 /\ Contains(blocks[9 + i].text,
                             DisplayName(projects[i]) \o <<":", " ">>
                             \o format_maintainers(MaintainersOf(projects[i])))

\* C12 as amended: the line is "*{display name}:* {formatted maintainers}",
\* the display name and the colon inside bold markers.
C12_HelpBoldLinePerProject ==
    Answered("help") =>
        LET projects == ProjectsIn(source)
            blocks == resp.body.blocks
        IN /\ Len(blocks) = 14 + Len(projects)
           /\ \A i \in 1..Len(projects) :
                 /\ blocks[9 + i].type = "section"
                 /\ blocks[9 + i].text =
                        <<"*">> \o DisplayName(projects[i]) \o <<":", "*", " ">>
                        \o format_maintainers(MaintainersOf(projects[i]))

C12_Witness ==
    /\ Answered("help")
    /\ source.kind = "present"
    /\ source.doc.projects = << Entry(S("kubeflex"), [maintainers |-> << S("alice") >>]),
                                Entry(S("ui"), [maintainers |-> <<>>]) >>
    /\ resp.body.blocks[10].text = <<"*", "Kubeflex", ":", "*", " ", "@", "alice">>
    /\ resp.body.blocks[11].text = <<"*", "Ui", ":", "*", " ", "No maintainers assigned">>

\* C13: the meeting message has, for N projects, N maintainer lines and N
\* logistics blocks, each logistics block right after its project's line,
\* in the mapping's order; with no project there is no logistics block.
C13_LogisticsPerProject ==
    Answered("meeting") =>
        LET projects == ProjectsIn(source)
            blocks == resp.body.blocks
            N == Len(projects)
        IN /\ Len(blocks) = 7 + 3 * N
           /\ \A i \in 1..N :
                 /\ blocks[3 * i + 1].text =
                        <<"*">> \o DisplayName(projects[i]) \o <<":", "*", " ">>
                        \o format_maintainers(MaintainersOf(projects[i]))
                 /\ blocks[3 * i + 2] = MeetingInfo
           /\ Cardinality({ j \in 1..Len(blocks) : blocks[j] = MeetingInfo }) = N

C13_Witness ==
    /\ Answered("meeting")
    /\ Len(ProjectsIn(source)) = 2
    /\ resp.body.blocks[5] = MeetingInfo
    /\ resp.body.blocks[8] = MeetingInfo
    /\ Len(resp.body.blocks) = 13

\* the part of a maintainer line after "*{display name}:* "
FormattedPart(text, entry) == SubSeq(text, Len(DisplayName(entry)) + 5, Len(text))

\* C14: format_maintainers gives "No maintainers assigned" iff the list is
\* empty or absent; otherwise every entry, in order, joined by ", ", an
\* entry that starts with "@" as it is and any other with one "@" before it.
C14_FormatMaintainers ==
    Answered("help") =>
        \A i \in 1..Len(ProjectsIn(source)) :
            LET entry == ProjectsIn(source)[i]
                L == MaintainersOf(entry)
                formatted == FormattedPart(resp.body.blocks[9 + i].text, entry)
            IN /\ (formatted = S("No maintainers assigned")) <=> (L = <<>>)
               /\ L # <<>> =>
                     formatted = Join(S(", "),
                         [j \in 1..Len(L) |->
                             IF L[j] # <<>> /\ L[j][1] = "@" THEN L[j] ELSE <<"@">> \o L[j]])

C14_Witness ==
    /\ Answered("help")
    /\ Len(ProjectsIn(source)) >= 1
    /\ MaintainersOf(ProjectsIn(source)[1]) = << <<"@", "bob">>, S("carol") >>
    /\ FormattedPart(resp.body.blocks[10].text, ProjectsIn(source)[1])
          = <<"@", "bob", ", ", "@", "carol">>

\* C15: the internship message does not depend on the projects mapping: any
\* config with the same organization info gives the same message for the
\* same user, and its docs/github/website URLs are those of the
\* organization info, each with its default.
C15_InternshipIgnoresProjects ==
    Answered("internship") =>
        LET org == Get(ConfigIn(source), "organization", EmptyMap)
        IN /\ \A s2 \in ComposerSources :
                 Get(ConfigIn(s2), "organization", EmptyMap) = org =>
                    resp = SlashOk(create_internship_blocks(
                                      s2, ProjectOf(ConfigIn(s2), S("default")),
                                      req.form.user_id).value)
           /\ resp.body.blocks[8].urls =
                 << Get(org, "docs", S("https://docs.kubestellar.io")),
                    Get(org, "github", S("https://github.com/kubestellar")),
                    Get(org, "website", S("https://kubestellar.io")) >>

C15_Witness ==
    /\ Answered("internship")
    /\ HasKey(ProjectsIn(source), S("default"))
    /\ MaintainersOf(Entry(S("default"), Lookup(ProjectsIn(source), S("default")))) = << S("alice") >>
    /\ Get(ConfigIn(source), "organization", EmptyMap) = OrgInfo
    /\ resp.body.blocks[9].text = S("*Need Help?* ... Tag: Andy Anderson")
    /\ resp.body.blocks[8].urls[1] = S("https://docs.acme.example")

----------------------------------------------------------------------------
(* One version of the source per request                                   *)
\* the key get_project_info is called with before the composer called at 'at'
KeyAt(form, at) ==
    IF at = "chain" THEN S(ChainBranch(Strip(Get(form, "command", <<>>)))) ELSE S("default")

\* the answer of the handler stopped at 'at' when both of its loads read src
OneVersionResponse(src, form, at) ==
    LET command == Strip(Get(form, "command", <<>>))
        user_id == Get(form, "user_id", None)
        info == ProjectOf(ConfigIn(src), KeyAt(form, at))
        r == CASE at = "first_if" ->
                    LET b == create_project_blocks(src, user_id, info, "contribute")
                    IN IF b.exc = "none" /\ ChainBranch(command) = "else"
                       THEN Ok(UnknownCommandBlocks(command)) ELSE b
               [] at = "chain" ->
                    create_project_blocks(src, user_id, info, ChainBranch(command))
               [] OTHER -> create_internship_blocks(src, info, user_id)
    IN IF r.exc # "none" THEN SlashError ELSE SlashOk(r.value)

\* C16: a request that loads the config twice, with or without an edit of the
\* source between the loads, is answered as if both loads had read one
\* version of the source: the one of the first load or the one of the second.
C16_OneVersionPerRequest ==
    [][ (pc \in { "first_if", "chain", "internship" } /\ pc' = "idle") =>
            resp' \in { OneVersionResponse(read1, req.form, pc),
                        OneVersionResponse(source, req.form, pc) } ]_vars

\* a project command between its two loads, the source edited since the
\* first one in both the project's fields and the organization info
C16_Witness ==
    /\ pc = "chain"
    /\ read1 # NoRead /\ read1 # source
    /\ project_info = ProjectOf(ConfigIn(read1), KeyAt(req.form, pc))
    /\ project_info # ProjectOf(ConfigIn(source), KeyAt(req.form, pc))
    /\ Get(ConfigIn(read1), "organization", EmptyMap)
          # Get(ConfigIn(source), "organization", EmptyMap)

====
